---- MODULE Spec2Model ----
(***************************************************************************)
(* Model of the RaffoSynth engine (src/src/dsp/moog_engine.c) and of its   *)
(* plugin adapter (src/src/dsp/moog_plugin.cpp): the voice manager (key    *)
(* stack, gate, glide targets), the two ADSR envelopes, the render loop    *)
(* (oscillators, noise, ladder filter, output) and the adapter's MIDI and  *)
(* block entry points.                                                     *)
(*                                                                         *)
(* Numbers.  The engine computes in float/double; the model computes in    *)
(* fixed point with these units:                                           *)
(*   normalized parameters and envelope levels : 1/1000   (1000 = 1.0)     *)
(*   envelope times                            : 1/2000 sample (exact)     *)
(*   frequencies                               : 1/100 Hz                  *)
(*   oscillator periods                        : 1/100 sample              *)
(*   progress and rates                        : 1/1000  (1000 = 1.0)      *)
(*   pitch ratios                              : 1/10000                   *)
(*   oscillator and noise samples              : 1/1000                    *)
(*   filter memory and output samples          : 1/1000000                 *)
(*   pitch_bend                                : 1/8192  (exact)           *)
(*   mod_wheel                                 : 1/127   (exact)           *)
(* Values are finite: a NaN or an infinity has no representation.          *)
(*                                                                         *)
(* The LFO (lfo_phase and its sine) is left out: every patch used here     *)
(* has lfo_depth_pitch = lfo_depth_filter = 0, as the factory Init preset  *)
(* has, so the LFO value is multiplied by zero wherever the loop uses it.  *)
(* last_val is written by init and reset only.                             *)
(***************************************************************************)
EXTENDS Integers, Sequences, FiniteSets, TLC

\* ------------------------------------------------------------------------
\* Program constants
\* ------------------------------------------------------------------------
MOOG_MAX_KEYS == 16
MOOG_SAMPLE_RATE == 44100
MOOG_MAX_RENDER == 256

WAVE_TRIANGLE == 0
WAVE_SAWTOOTH == 1
WAVE_SQUARE == 2
WAVE_PULSE == 3

ENV_OFF == 0
ENV_ATTACK == 1
ENV_DECAY == 2
ENV_SUSTAIN == 3
ENV_RELEASE == 4

\* 1.0 in the fixed-point unit of levels, parameters, progress and rates
One == 1000
\* the literal 0.001f the glide parameter is compared with
GlideThreshold == 1
\* the literal 0.01 of the glide update, in 1/100 sample
GlideEpsilon == 1

\* ------------------------------------------------------------------------
\* Bounds of the model
\* ------------------------------------------------------------------------
\* keys of Notes that may be in the key stack at once before further
\* note-ons are withheld
MaxHeld == 3
\* samples rendered before rendering stops (cap of the phase counter)
MaxSamples == 96
\* keys already held (and kept held) in the crowded initial state
NumBase == 14

\* the keys the player presses and releases
Notes == {60, 64, 67}
\* note-on velocities
Velocities == {800}
\* frames per render call
FrameSizes == {48}
\* glide settings: 0.001 (at the threshold) and 0.002 (just above it)
GlideValues == {1, 2}
\* octave transpose settings
OctaveValues == {0}

\* ------------------------------------------------------------------------
\* Utility functions
\* ------------------------------------------------------------------------
Abs(x) == IF x < 0 THEN -x ELSE x

\* 8.1758 * pow(1.0594630943593, k) for the semitones k = 0..11 of the lowest
\* octave, in 1/1000 Hz
SemitoneHz == <<8176, 8662, 9177, 9723, 10301, 10913, 11562, 12250, 12978, 13750, 14568, 15434>>

\* pow(2, octave)
RECURSIVE Pow2(_)
Pow2(octave) == IF octave <= 0 THEN 1 ELSE 2 * Pow2(octave - 1)

\* 8.1758 * pow(1.0594630943593, note) in 1/100 Hz, rounded to nearest: twelve
\* semitones double the frequency
NoteHz(note) == (SemitoneHz[(note % 12) + 1] * Pow2(note \div 12) + 5) \div 10

note_to_hz(note) == NoteHz(note)

\* period in 1/100 sample of a frequency in 1/100 Hz
hz_to_period(hz, sample_rate) ==
    IF hz < 100 THEN sample_rate * 100 ELSE (sample_rate * 10000) \div hz

\* time in 1/2000 sample: (0.001 + param^2 * 5.0) * 44100
param_to_time_tenfold(param, sample_rate) == (200 + param * param) * (sample_rate \div 10)

param_to_time(param, sample_rate) == (200 + param * param) * (sample_rate \div 100)

\* note + octave_transpose * 12, clamped to [0, 127]
\* the note limited to 0..127 without the transpose
EffectiveNote_raw(note, octave_transpose) ==
    IF note < 0 THEN 0 ELSE IF note > 127 THEN 127 ELSE note

EffectiveNote(note, octave_transpose) ==
    LET effective_note == note + octave_transpose * 12
    IN  IF effective_note < 0 THEN 0
        ELSE IF effective_note > 127 THEN 127 ELSE effective_note

NotePeriod(note, octave_transpose) ==
    hz_to_period(note_to_hz(EffectiveNote(note, octave_transpose)), MOOG_SAMPLE_RATE)

\* a ratio 1.0 in 1/10000, the unit of the pitch ratios
RatioOne == 10000
\* 1.0 in 1/1000000, the unit of the filter memory and of the samples
MicroOne == 1000000

\* pow(2.0, j / 16) for j = 0..16, in 1/10000
Exp2Table == <<10000, 10443, 10905, 11388, 11892, 12419, 12968, 13543, 14142, 14768, 15422, 16105, 16818, 17563, 18340, 19152, 20000>>

\* pow(2.0, x) in 1/10000 for x in 1/1000 (x may be negative): the integer
\* part by doubling or halving, the fraction from the table, interpolated
Exp2(x) ==
    LET whole == x \div One
        frac == x % One
        j == (frac * 16) \div One
        rest == (frac * 16) % One
        base == Exp2Table[j + 1] + ((Exp2Table[j + 2] - Exp2Table[j + 1]) * rest) \div One
    IN  IF whole >= 0 THEN base * Pow2(whole) ELSE base \div Pow2(-whole)

\* a * b for a, b in 1/1000000, computed in parts that fit 32 bits
MulMicro(a, b) ==
    IF b = 0 THEN 0
    ELSE LET a1 == a \div One
             a0 == a % One
             b1 == b \div One
             b0 == b % One
         IN  a1 * b1 + (a1 * b0 + a0 * b1) \div One + (a0 * b0) \div MicroOne

\* period * ratio and period / ratio for a ratio in 1/10000
MulRatio(period, ratio) ==
    (period \div RatioOne) * ratio + ((period % RatioOne) * ratio) \div RatioOne

DivRatio(period, ratio) ==
    (period \div ratio) * RatioOne + ((period % ratio) * RatioOne) \div ratio

clampf(v, lo, hi) == IF v < lo THEN lo ELSE IF v > hi THEN hi ELSE v

\* seed * 1664525 + 1013904223 modulo 2^32, on the seed's 16-bit halves
\* (1664525 = 25 * 65536 + 26125, 1013904223 = 15470 * 65536 + 62303)
NoiseNext(seed) ==
    LET lo == seed.lo * 26125 + 62303
        hi == seed.hi * 26125 + seed.lo * 25 + 15470 + lo \div 65536
    IN  [hi |-> hi % 65536, lo |-> lo % 65536]

\* (float)(int32_t)seed / (float)0x7FFFFFFF in 1/1000
noise_sample(seed) ==
    LET signed == IF seed.hi >= 32768 THEN seed.hi - 65536 ELSE seed.hi
    IN  (signed * One) \div 32768

\* fmod(counter + offset, period) / period in 1/1000; counter in samples,
\* offset and period in 1/100 sample
OscPhase(counter, offset, period) ==
    (((counter * 100 + offset) % period) * 100) \div (period \div 10)

osc_triangle(counter, period) ==
    4 * (Abs(OscPhase(counter, period \div 4, period) - 500) - 250)

osc_sawtooth(counter, period) == 2 * OscPhase(counter, 0, period) - One

osc_square(counter, period) == IF OscPhase(counter, 0, period) < 500 THEN One ELSE -One

osc_pulse(counter, period) == IF OscPhase(counter, 0, period) < 200 THEN One ELSE -One

generate_osc(wave, counter, period) ==
    CASE wave = WAVE_TRIANGLE -> osc_triangle(counter, period)
      [] wave = WAVE_SAWTOOTH -> osc_sawtooth(counter, period)
      [] wave = WAVE_SQUARE -> osc_square(counter, period)
      [] wave = WAVE_PULSE -> osc_pulse(counter, period)
      [] OTHER -> 0

\* ------------------------------------------------------------------------
\* Envelope generator
\* ------------------------------------------------------------------------
\* counter / time >= 1.0
Completed_threefold(counter, time) == 2000 * counter >= 3 * time

Completed(counter, time) == 2000 * counter >= time

\* counter / time in 1/1000, for counter / time < 1.0
Progress(counter, time) == (10 * counter * One) \div ((time + 199) \div 200)

\* the attack curve: from the level at the trigger to 1.0, p = progress^2
AttackLevel_unscaled(start, p) == start + p

AttackLevel(start, p) == start + ((One - start) * p) \div One

\* env is [state, level, attack_level, release_level, counter]
envelope_process(env, attack, decay, sustain, release, sample_rate) ==
    LET atk_time == param_to_time(attack, sample_rate)
        dec_time == param_to_time(decay, sample_rate)
        rel_time == param_to_time(release, sample_rate)
    IN  CASE env.state = ENV_ATTACK ->
               IF Completed(env.counter, atk_time)
               THEN [env EXCEPT !.level = One, !.state = ENV_DECAY, !.counter = 1]
               ELSE LET progress == Progress(env.counter, atk_time)
                        start == env.attack_level
                        p == (progress * progress) \div One
                    IN  [env EXCEPT !.level = AttackLevel(start, p),
                                    !.counter = @ + 1]
          [] env.state = ENV_DECAY ->
               IF Completed(env.counter, dec_time)
               THEN [env EXCEPT !.level = sustain, !.state = ENV_SUSTAIN, !.counter = 1]
               ELSE LET p == One - Progress(env.counter, dec_time)
                    IN  [env EXCEPT !.level = sustain + ((One - sustain) * p * p) \div (One * One),
                                    !.counter = @ + 1]
          [] env.state = ENV_SUSTAIN ->
               [env EXCEPT !.level = sustain]
          [] env.state = ENV_RELEASE ->
               IF Completed(env.counter, rel_time)
               THEN [env EXCEPT !.level = 0, !.state = ENV_OFF, !.counter = 1]
               ELSE LET p == One - Progress(env.counter, rel_time)
                    IN  [env EXCEPT !.level = (env.release_level * p * p) \div (One * One),
                                    !.counter = @ + 1]
          [] OTHER ->
               [env EXCEPT !.level = 0]

AmpEnv(e) == [state |-> e.amp_env_state, level |-> e.amp_env_level,
              attack_level |-> e.amp_env_attack_level,
              release_level |-> e.amp_env_release_level,
              counter |-> e.amp_env_counter]

FiltEnv(e) == [state |-> e.filt_env_state, level |-> e.filt_env_level,
               attack_level |-> e.filt_env_attack_level,
               release_level |-> e.filt_env_release_level,
               counter |-> e.filt_env_counter]

\* ------------------------------------------------------------------------
\* Engine lifecycle
\* ------------------------------------------------------------------------
\* key_stack holds the live entries key_stack[0 .. key_stack_count - 1], oldest
\* first; the slots at and above key_stack_count are never read by the engine
moog_engine_init ==
    [ glide |-> 0, octave_transpose |-> 0,
      amp_attack |-> 10, amp_decay |-> 300, amp_sustain |-> 700, amp_release |-> 200,
      filt_attack |-> 10, filt_decay |-> 300, filt_sustain |-> 300, filt_release |-> 200,
      velocity |-> 1000,
      counter |-> 0,
      period |-> hz_to_period(note_to_hz(60), MOOG_SAMPLE_RATE),
      glide_period |-> hz_to_period(note_to_hz(60), MOOG_SAMPLE_RATE),
      amp_env_state |-> ENV_OFF, amp_env_level |-> 0,
      amp_env_attack_level |-> 0, amp_env_release_level |-> 0, amp_env_counter |-> 0,
      filt_env_state |-> ENV_OFF, filt_env_level |-> 0,
      filt_env_attack_level |-> 0, filt_env_release_level |-> 0, filt_env_counter |-> 0,
      current_note |-> 0, gate_on |-> 0,
      key_stack |-> <<>>, key_stack_count |-> 0,
      osc_wave |-> <<WAVE_SAWTOOTH, WAVE_SAWTOOTH, WAVE_SAWTOOTH, WAVE_TRIANGLE>>,
      osc_volume |-> <<800, 0, 0, 0>>,
      osc_range |-> <<0, 0, -1, 0>>,
      osc2_detune |-> 0, osc3_detune |-> 0, osc4_detune |-> 500,
      filter_cutoff |-> 700, filter_resonance |-> 200,
      filter_contour |-> 300, filter_key_follow |-> 0,
      master_volume |-> 700, noise_volume |-> 0,
      mod_to_filter |-> 500, mod_to_pitch |-> 500,
      bend_range |-> 167, velocity_sensitivity |-> 500,
      lfo_rate |-> 300, lfo_depth_pitch |-> 0, lfo_depth_filter |-> 0,
      mod_wheel |-> 0, pitch_bend |-> 0,
      filter_prev |-> <<0, 0, 0, 0, 0>>,
      last_val |-> <<0, 0, 0, 0, 0>>,
      noise_seed |-> [hi |-> 0, lo |-> 12345] ]

\* a reset that leaves the envelopes running
moog_engine_reset_keepenv(e) ==
    [e EXCEPT !.gate_on = 0, !.current_note = -1,
              !.key_stack = <<>>, !.key_stack_count = 0,
              !.counter = 0,
              !.filter_prev = <<0, 0, 0, 0, 0>>,
              !.last_val = <<0, 0, 0, 0, 0>>]

\* a reset that halves the envelope levels instead of clearing them
moog_engine_reset_fade(e) ==
    [e EXCEPT !.amp_env_state = ENV_OFF, !.amp_env_level = e.amp_env_level \div 2,
              !.amp_env_counter = 0,
              !.filt_env_state = ENV_OFF, !.filt_env_level = e.filt_env_level \div 2,
              !.filt_env_counter = 0,
              !.gate_on = 0, !.current_note = -1,
              !.key_stack = <<>>, !.key_stack_count = 0,
              !.counter = 0,
              !.filter_prev = <<0, 0, 0, 0, 0>>,
              !.last_val = <<0, 0, 0, 0, 0>>]

\* a reset that leaves the filter memory
moog_engine_reset_keepfilter(e) ==
    [e EXCEPT !.amp_env_state = ENV_OFF, !.amp_env_level = 0, !.amp_env_counter = 0,
              !.filt_env_state = ENV_OFF, !.filt_env_level = 0, !.filt_env_counter = 0,
              !.gate_on = 0, !.current_note = -1,
              !.key_stack = <<>>, !.key_stack_count = 0,
              !.counter = 0]

moog_engine_reset(e) ==
    [e EXCEPT !.amp_env_state = ENV_OFF, !.amp_env_level = 0, !.amp_env_counter = 0,
              !.filt_env_state = ENV_OFF, !.filt_env_level = 0, !.filt_env_counter = 0,
              !.gate_on = 0, !.current_note = -1,
              !.key_stack = <<>>, !.key_stack_count = 0,
              !.counter = 0,
              !.filter_prev = <<0, 0, 0, 0, 0>>,
              !.last_val = <<0, 0, 0, 0, 0>>]

\* the parameter fields the adapter copies into the engine
ParamNames ==
    {"osc_wave", "osc_volume", "osc_range", "osc2_detune", "osc3_detune", "osc4_detune",
     "noise_volume",
     "filter_cutoff", "filter_resonance", "filter_contour", "filter_key_follow",
     "amp_attack", "amp_decay", "amp_sustain", "amp_release",
     "filt_attack", "filt_decay", "filt_sustain", "filt_release",
     "glide", "master_volume",
     "lfo_rate", "lfo_depth_pitch", "lfo_depth_filter",
     "mod_to_filter", "mod_to_pitch", "bend_range", "velocity_sensitivity"}

\* params is the instance's parameter array, one entry per name
apply_params_to_engine(e, params) ==
    [f \in DOMAIN e |-> IF f \in ParamNames THEN params[f] ELSE e[f]]

\* a parameter array holding the defaults of moog_engine_init
InitParams == [f \in ParamNames |-> moog_engine_init[f]]

\* set_param("octave_transpose", val)
set_octave_transpose(e, val) ==
    LET clamped == IF val < -3 THEN -3 ELSE IF val > 3 THEN 3 ELSE val
    IN  [e EXCEPT !.octave_transpose = clamped]

\* ------------------------------------------------------------------------
\* MIDI handlers
\* ------------------------------------------------------------------------
\* note_on, "Add note to key stack": a push that a full stack drops
KeyStackPush_unguarded(e, note) ==
    [e EXCEPT !.key_stack = Append(@, note), !.key_stack_count = @ + 1]

KeyStackPush(e, note) ==
    IF e.key_stack_count < MOOG_MAX_KEYS
    THEN [e EXCEPT !.key_stack = Append(@, note), !.key_stack_count = @ + 1]
    ELSE e

\* note_on, pitch: glide to the note when gated and gliding, else jump to it
NoteOnPitch_immediate(e, note) ==
    [e EXCEPT !.period = NotePeriod(note, e.octave_transpose),
              !.glide_period = NotePeriod(note, e.octave_transpose)]

NoteOnPitch(e, note) ==
    LET target_period == NotePeriod(note, e.octave_transpose)
    IN  IF e.gate_on # 0 /\ e.glide > GlideThreshold
        THEN [e EXCEPT !.glide_period = target_period]
        ELSE [e EXCEPT !.period = target_period, !.glide_period = target_period]

\* note_on, envelopes: legato when gated, else retrigger from the current level
RetriggerEnvelopes(e, amp_start, filt_start) ==
    [e EXCEPT !.gate_on = 1,
              !.amp_env_attack_level = amp_start,
              !.amp_env_state = ENV_ATTACK,
              !.amp_env_counter = 0,
              !.filt_env_attack_level = filt_start,
              !.filt_env_state = ENV_ATTACK,
              !.filt_env_counter = 0]

NoteOnEnvelopes_always(e) == RetriggerEnvelopes(e, e.amp_env_level, e.filt_env_level)

NoteOnEnvelopes_fromzero(e) ==
    IF e.gate_on # 0 THEN e ELSE RetriggerEnvelopes(e, 0, 0)

NoteOnEnvelopes(e) ==
    IF e.gate_on # 0 THEN e
    ELSE RetriggerEnvelopes(e, e.amp_env_level, e.filt_env_level)

moog_engine_note_on(e, note, velocity) ==
    LET pitched == NoteOnPitch(KeyStackPush(e, note), note)
    IN  NoteOnEnvelopes([pitched EXCEPT !.current_note = note, !.velocity = velocity])

\* position (from 1) of the first entry equal to note, or 0 when there is none
KeyIndex(e, note) ==
    LET hits == {i \in 1..e.key_stack_count : e.key_stack[i] = note}
    IN  IF hits = {} THEN 0 ELSE CHOOSE i \in hits : \A j \in hits : i <= j

\* the stack with the entry at position i taken out and the later ones shifted down
ShiftDown(e, i) ==
    [e EXCEPT !.key_stack = [j \in 1..(e.key_stack_count - 1) |->
                               IF j >= i THEN e.key_stack[j + 1] ELSE e.key_stack[j]],
              !.key_stack_count = @ - 1]

\* note_off, "Remove note from key stack"
KeyStackRemove_top(e, note) ==
    IF KeyIndex(e, note) >= 1 THEN ShiftDown(e, e.key_stack_count) ELSE e

KeyStackRemove(e, note) ==
    IF KeyIndex(e, note) >= 1 THEN ShiftDown(e, KeyIndex(e, note)) ELSE e

\* note_off with notes remaining: play the most recent remaining note
NoteOffRetarget_glideonly(e) ==
    [e EXCEPT !.current_note = e.key_stack[e.key_stack_count],
              !.glide_period = NotePeriod(e.key_stack[e.key_stack_count],
                                          e.octave_transpose)]

NoteOffRetarget(e) ==
    LET new_note == e.key_stack[e.key_stack_count]
        target_period == NotePeriod(new_note, e.octave_transpose)
        noted == [e EXCEPT !.current_note = new_note]
    IN  IF e.glide > GlideThreshold
        THEN [noted EXCEPT !.glide_period = target_period]
        ELSE [noted EXCEPT !.period = target_period, !.glide_period = target_period]

\* a release that leaves the gate on
NoteOffRelease_keepgate(e) ==
    [e EXCEPT !.amp_env_release_level =
                  IF e.amp_env_state # ENV_OFF THEN e.amp_env_level ELSE @,
              !.amp_env_state = IF @ # ENV_OFF THEN ENV_RELEASE ELSE @,
              !.amp_env_counter = IF e.amp_env_state # ENV_OFF THEN 0 ELSE @,
              !.filt_env_release_level =
                  IF e.filt_env_state # ENV_OFF THEN e.filt_env_level ELSE @,
              !.filt_env_state = IF @ # ENV_OFF THEN ENV_RELEASE ELSE @,
              !.filt_env_counter = IF e.filt_env_state # ENV_OFF THEN 0 ELSE @]

\* a release that also takes an envelope out of Off
NoteOffRelease_always(e) ==
    [e EXCEPT !.gate_on = 0,
              !.amp_env_release_level = e.amp_env_level,
              !.amp_env_state = ENV_RELEASE, !.amp_env_counter = 0,
              !.filt_env_release_level = e.filt_env_level,
              !.filt_env_state = ENV_RELEASE, !.filt_env_counter = 0]

NoteOffRelease_keepcounter(e) ==
    [e EXCEPT !.gate_on = 0,
              !.amp_env_release_level =
                  IF e.amp_env_state # ENV_OFF THEN e.amp_env_level ELSE @,
              !.amp_env_state = IF @ # ENV_OFF THEN ENV_RELEASE ELSE @,
              !.filt_env_release_level =
                  IF e.filt_env_state # ENV_OFF THEN e.filt_env_level ELSE @,
              !.filt_env_state = IF @ # ENV_OFF THEN ENV_RELEASE ELSE @]

\* note_off with no notes held: release
NoteOffRelease(e) ==
    LET gated == [e EXCEPT !.gate_on = 0]
        amp == IF e.amp_env_state # ENV_OFF
               THEN [gated EXCEPT !.amp_env_release_level = e.amp_env_level,
                                  !.amp_env_state = ENV_RELEASE,
                                  !.amp_env_counter = 0]
               ELSE gated
    IN  IF e.filt_env_state # ENV_OFF
        THEN [amp EXCEPT !.filt_env_release_level = e.filt_env_level,
                         !.filt_env_state = ENV_RELEASE,
                         !.filt_env_counter = 0]
        ELSE amp

moog_engine_note_off(e, note) ==
    LET removed == KeyStackRemove(e, note)
    IN  IF removed.key_stack_count > 0
        THEN NoteOffRetarget(removed)
        ELSE NoteOffRelease(removed)

\* an all-notes-off that also rewinds the phase counter
moog_engine_all_notes_off_rewind(e) ==
    [e EXCEPT !.key_stack = <<>>, !.key_stack_count = 0, !.gate_on = 0,
              !.amp_env_state = ENV_OFF, !.amp_env_level = 0,
              !.filt_env_state = ENV_OFF, !.filt_env_level = 0,
              !.current_note = -1, !.counter = 0]

moog_engine_all_notes_off_keeplevel(e) ==
    [e EXCEPT !.key_stack = <<>>, !.key_stack_count = 0, !.gate_on = 0,
              !.amp_env_state = ENV_OFF, !.filt_env_state = ENV_OFF,
              !.current_note = -1]

moog_engine_all_notes_off(e) ==
    [e EXCEPT !.key_stack = <<>>, !.key_stack_count = 0, !.gate_on = 0,
              !.amp_env_state = ENV_OFF, !.amp_env_level = 0,
              !.filt_env_state = ENV_OFF, !.filt_env_level = 0,
              !.current_note = -1]

\* ------------------------------------------------------------------------
\* Audio rendering
\* ------------------------------------------------------------------------
\* 1 / (1 + glide_time / frames) in 1/1000, glide_time = glide^2 * 2 * 44100
GlideRate(glide, frames) ==
    IF glide > GlideThreshold
    THEN (frames * One * One) \div (frames * One + (glide * glide * 882) \div 10)
    ELSE One

\* pow(2.0, bend_semitones / 12.0) in 1/10000; pitch_bend is in 1/8192
BendRatio(e) == Exp2((e.pitch_bend * e.bend_range) \div 8192)

\* the detune setting applied to oscillator osc (1..4), or 500 (no detune)
\* where the code applies none
OscDetune(e, osc) ==
    CASE osc = 2 /\ Abs(e.osc2_detune) > 1 -> e.osc2_detune
      [] osc = 3 /\ Abs(e.osc3_detune) > 1 -> e.osc3_detune
      [] osc = 4 /\ Abs(e.osc4_detune - 500) > 1 -> e.osc4_detune
      [] OTHER -> 500

\* pow(2.0, -detune_cents / 1200.0) in 1/10000, detune_cents = (d - 0.5) * 100
DetuneRatio(d) == Exp2((500 - d) \div 12)

\* the period of oscillator osc: range offset, detune, minimum of 2 samples
OscPeriod(e, osc, current_period) ==
    LET range == e.osc_range[osc]
        ranged == IF range # 0
                  THEN MulRatio(current_period, Exp2(-range * One))
                  ELSE current_period
        detuned == IF OscDetune(e, osc) # 500
                   THEN MulRatio(ranged, DetuneRatio(OscDetune(e, osc)))
                   ELSE ranged
    IN  IF detuned < 200 THEN 200 ELSE detuned

\* the sum of the oscillators that are not muted, in 1/1000
OscMix(e, counter, current_period) ==
    LET osc_sample(osc) ==
            IF e.osc_volume[osc] < 1 THEN 0
            ELSE (generate_osc(e.osc_wave[osc], counter, OscPeriod(e, osc, current_period))
                     * e.osc_volume[osc]) \div One
    IN  osc_sample(1) + osc_sample(2) + osc_sample(3) + osc_sample(4)

\* 1 - velocity_sensitivity + velocity_sensitivity * velocity
VelScale(e) == One - e.velocity_sensitivity + (e.velocity_sensitivity * e.velocity) \div One

\* the filter coefficient f = 1.16 * clamp(cutoff_hz / sr, 0.001, 0.49) in
\* 1/1000000, with cutoff_hz = 20 * powf(1000, cutoff_normalized)
FilterF(e, filt_env) ==
    LET filt_env_mod == (filt_env * e.filter_contour) \div One
        key_track == IF e.current_note >= 0
                     THEN ((e.current_note - 60) * e.filter_key_follow) \div 127
                     ELSE 0
        cutoff_normalized == clampf(e.filter_cutoff + filt_env_mod + key_track, 0, One)
        fc == (Exp2((cutoff_normalized * 9966) \div One) * 20) \div (MOOG_SAMPLE_RATE \div 100)
    IN  (clampf(fc, 1000, 490000) * 116) \div 100

\* the tap of the last stage, limited to [-4.0, 4.0]
FilterClamp_open(b4) == b4

FilterClamp(b4) == clampf(b4, -4 * MicroOne, 4 * MicroOne)

\* one sample through the ladder filter; prev[1..5] is filter_prev[0..4],
\* sample, f and the result in 1/1000000, resonance in 1/1000
FilterStep(prev, sample, f, resonance) ==
    LET ff == MulMicro(f, f)
        fb == MulMicro(resonance * One, MicroOne - MulMicro(150000, ff))
        input == MulMicro(MulMicro(350130, MulMicro(ff, ff)),
                          sample - MulMicro(fb, prev[5]))
        b1 == input + MulMicro(300000, prev[1]) + MulMicro(MicroOne - f, prev[2])
        b2 == b1 + MulMicro(300000, b1) + MulMicro(MicroOne - f, prev[3])
        b3 == b2 + MulMicro(300000, b2) + MulMicro(MicroOne - f, prev[4])
        b4 == b3 + MulMicro(300000, b3) + MulMicro(MicroOne - f, prev[5])
    IN  <<input, b1, b2, b3, FilterClamp(b4)>>

\* the fields the render loop changes: the sounding period, both envelopes,
\* the noise seed, the filter memory and the phase counter; output is the
\* buffer the loop writes, in 1/1000000
RenderState(e) ==
    [period |-> e.period, amp |-> AmpEnv(e), filt |-> FiltEnv(e), counter |-> e.counter,
     noise_seed |-> e.noise_seed, filter_prev |-> e.filter_prev, output |-> <<>>]

\* one iteration of the render loop on those fields: glide slew, both
\* envelopes, oscillators, noise, filter, output sample, phase counter; e
\* supplies the fields the loop only reads
RenderSample(r, e, glide_rate) ==
    LET period == IF Abs(r.period - e.glide_period) > GlideEpsilon
                  THEN r.period + ((e.glide_period - r.period) * glide_rate) \div One
                  ELSE r.period
        current_period == DivRatio(period, BendRatio(e))
        amp == envelope_process(r.amp, e.amp_attack, e.amp_decay,
                                e.amp_sustain, e.amp_release, MOOG_SAMPLE_RATE)
        filt == envelope_process(r.filt, e.filt_attack, e.filt_decay,
                                 e.filt_sustain, e.filt_release, MOOG_SAMPLE_RATE)
        noisy == e.noise_volume > 1
        seed == IF noisy THEN NoiseNext(r.noise_seed) ELSE r.noise_seed
        mixed == OscMix(e, r.counter, current_period)
                 + (IF noisy THEN (noise_sample(seed) * e.noise_volume) \div One ELSE 0)
        sample == (((mixed * amp.level) \div One) * VelScale(e)) \div One
        prev == FilterStep(r.filter_prev, sample * One, FilterF(e, filt.level),
                           e.filter_resonance)
    IN  [period |-> period, amp |-> amp, filt |-> filt, counter |-> r.counter + 1,
         noise_seed |-> seed, filter_prev |-> prev,
         output |-> Append(r.output, MulMicro(e.master_volume * One, prev[5]))]

\* the loop over the samples of a block: RenderSample is iterated until the
\* phase counter reaches last_counter; the iterations up to the midpoint are
\* evaluated first, then the rest, which keeps the evaluation shallow
RECURSIVE RenderLoop(_, _, _, _)
RenderLoop(r, e, glide_rate, last_counter) ==
    IF r.counter >= last_counter THEN r
    ELSE IF r.counter + 1 = last_counter THEN RenderSample(r, e, glide_rate)
    ELSE RenderLoop(RenderLoop(r, e, glide_rate,
                               r.counter + (last_counter - r.counter) \div 2),
                    e, glide_rate, last_counter)

\* the engine after the loop, with the filter memory of before the block
EngineAfter_dropfilter(e, r) ==
    [e EXCEPT !.period = r.period,
              !.amp_env_state = r.amp.state, !.amp_env_level = r.amp.level,
              !.amp_env_counter = r.amp.counter,
              !.filt_env_state = r.filt.state, !.filt_env_level = r.filt.level,
              !.filt_env_counter = r.filt.counter,
              !.noise_seed = r.noise_seed,
              !.counter = r.counter]

\* the engine after the loop has left r
EngineAfter(e, r) ==
    [e EXCEPT !.period = r.period,
              !.amp_env_state = r.amp.state, !.amp_env_level = r.amp.level,
              !.amp_env_counter = r.amp.counter,
              !.filt_env_state = r.filt.state, !.filt_env_level = r.filt.level,
              !.filt_env_counter = r.filt.counter,
              !.noise_seed = r.noise_seed, !.filter_prev = r.filter_prev,
              !.counter = r.counter]

\* the state of the loop after the last of frames samples
Rendered(e, frames) ==
    RenderLoop(RenderState(e), e, GlideRate(e.glide, frames), e.counter + frames)

moog_engine_render(e, frames) == EngineAfter(e, Rendered(e, frames))

\* ------------------------------------------------------------------------
\* State machine
\* ------------------------------------------------------------------------
\* engine: the moog_engine_t instance
\* last:   the call that produced the current state (history variable)
\* held:   the keys physically down, oldest press first (history variable)
VARIABLES engine, last, held

vars == <<engine, last, held>>

\* the patches: the fastest envelope times, glide at and above the
\* threshold, and the oscillators muted, so that the output is silence and
\* the filter memory stays at rest
Patches ==
    { [InitParams EXCEPT !.glide = g, !.osc_volume = <<0, 0, 0, 0>>,
           !.amp_attack = 0, !.amp_decay = 0, !.amp_sustain = 700, !.amp_release = 0,
           !.filt_attack = 0, !.filt_decay = 0, !.filt_sustain = 300, !.filt_release = 0]
      : g \in GlideValues }

\* the keys held throughout in the crowded initial state
BaseKeys == [i \in 1..NumBase |-> 20 + i]

\* the engine after the keys are pressed one after the other on an empty stack
RECURSIVE PressAll(_, _)
PressAll(e, keys) ==
    IF e.key_stack_count >= Len(keys) THEN e
    ELSE PressAll(moog_engine_note_on(e, keys[e.key_stack_count + 1], One), keys)

WithoutKey(s, note) == SelectSeq(s, LAMBDA k : k # note)

Init ==
    \E params \in Patches, octave \in OctaveValues, crowded \in BOOLEAN :
        LET fresh == set_octave_transpose(
                         apply_params_to_engine(moog_engine_init, params), octave)
        IN  /\ engine = IF crowded THEN PressAll(fresh, BaseKeys) ELSE fresh
            /\ held = IF crowded THEN BaseKeys ELSE <<>>
            /\ last = [op |-> "init", note |-> -1, velocity |-> 0, frames |-> 0]

\* entries of the key stack that are keys of Notes
NotesInStack ==
    Cardinality({i \in 1..engine.key_stack_count : engine.key_stack[i] \in Notes})

NoteOn(note, velocity) ==
    /\ NotesInStack < MaxHeld
    /\ engine' = moog_engine_note_on(engine, note, velocity)
    /\ held' = Append(WithoutKey(held, note), note)
    /\ last' = [op |-> "note_on", note |-> note, velocity |-> velocity, frames |-> 0]

NoteOff(note) ==
    /\ engine' = moog_engine_note_off(engine, note)
    /\ held' = WithoutKey(held, note)
    /\ last' = [op |-> "note_off", note |-> note, velocity |-> 0, frames |-> 0]

AllNotesOff ==
    /\ engine' = moog_engine_all_notes_off(engine)
    /\ held' = <<>>
    /\ last' = [op |-> "all_notes_off", note |-> -1, velocity |-> 0, frames |-> 0]

Reset ==
    /\ engine' = moog_engine_reset(engine)
    /\ held' = <<>>
    /\ last' = [op |-> "reset", note |-> -1, velocity |-> 0, frames |-> 0]

Render(frames) ==
    /\ engine.counter + frames <= MaxSamples
    /\ engine' = moog_engine_render(engine, frames)
    /\ held' = held
    /\ last' = [op |-> "render", note |-> -1, velocity |-> 0, frames |-> frames]

Next ==
    \/ \E note \in Notes, velocity \in Velocities : NoteOn(note, velocity)
    \/ \E note \in Notes : NoteOff(note)
    \/ AllNotesOff
    \/ Reset
    \/ \E frames \in FrameSizes : Render(frames)

Spec == Init /\ [][Next]_vars

\* ------------------------------------------------------------------------
\* Properties
\* ------------------------------------------------------------------------
\* the most recent entry of the key stack
TopKey(e) == e.key_stack[e.key_stack_count]

\* s with the element at position i taken out
DropAt(s, i) == SubSeq(s, 1, i - 1) \o SubSeq(s, i + 1, Len(s))

\* C1: every MIDI note number appears at most once among the entries of the
\* key stack, in every reachable state.
C1_NoDuplicateKeys ==
    \A i, j \in 1..engine.key_stack_count :
        i # j => engine.key_stack[i] # engine.key_stack[j]

\* C2: note-off(n) takes exactly one entry equal to n out of the key stack
\* and leaves the other entries in their order; when n is not in the stack
\* the stack is unchanged.  Releasing 64 from [60, 64, 67] leaves [60, 67]
\* with 67 sounding.
C2_NoteOffRemovesOne ==
    [][last'.op = "note_off" =>
         LET n == last'.note
             before == engine.key_stack
             after == engine'.key_stack
         IN  /\ engine'.key_stack_count = Len(after)
             /\ IF \E i \in 1..Len(before) : before[i] = n
                THEN \E i \in 1..Len(before) : before[i] = n /\ after = DropAt(before, i)
                ELSE after = before
             /\ (before = <<60, 64, 67>> /\ n = 64) =>
                    (after = <<60, 67>> /\ engine'.current_note = 67)]_vars

\* a key was released from the middle of [60, 64, 67]
C2_Witness ==
    /\ last.op = "note_off" /\ last.note = 64
    /\ engine.key_stack = <<60, 67>>
    /\ engine.current_note = 67

\* C3: whenever the key stack is non-empty, the sounding note is its last
\* entry.
C3_SoundingNoteIsTop ==
    engine.key_stack_count > 0 => engine.current_note = TopKey(engine)

\* C4: whenever at least one key is physically held, the gate is on and the
\* sounding note is the most recently pressed key among those still held.
C4_LastHeldKeySounds ==
    held # <<>> => (engine.gate_on = 1 /\ engine.current_note = held[Len(held)])

\* C5: the key stack holds between 0 and 16 entries in every reachable
\* state, and a note-on arriving when 16 are held leaves the stack as it was.
C5_StackCapacity ==
    /\ [](/\ engine.key_stack_count \in 0..MOOG_MAX_KEYS
          /\ Len(engine.key_stack) = engine.key_stack_count)
    /\ [][(last'.op = "note_on" /\ engine.key_stack_count = MOOG_MAX_KEYS) =>
             (/\ engine'.key_stack = engine.key_stack
              /\ engine'.key_stack_count = MOOG_MAX_KEYS)]_vars

\* a note-on was dropped by the full stack: the note sounds without an entry
C5_Witness ==
    /\ last.op = "note_on"
    /\ engine.key_stack_count = MOOG_MAX_KEYS
    /\ TopKey(engine) # last.note

\* the fields of the two envelopes
EnvelopeFields ==
    {"amp_env_state", "amp_env_level", "amp_env_attack_level",
     "amp_env_release_level", "amp_env_counter",
     "filt_env_state", "filt_env_level", "filt_env_attack_level",
     "filt_env_release_level", "filt_env_counter"}

\* the fields that hold the key stack and the pitch
KeyFields == {"key_stack", "key_stack_count"}
PitchFields == {"period", "glide_period", "current_note"}

\* C6: a note-off that leaves notes in the stack changes neither the gate nor
\* any envelope field and re-targets the pitch to the new top entry; a
\* note-off that leaves the stack empty clears the gate and puts each envelope
\* that is not Off in Release, anchored at its current level, with counter 0.
C6_NoteOffReleasesWhenEmpty ==
    [][last'.op = "note_off" =>
         IF engine'.key_stack_count > 0
         THEN /\ \A f \in DOMAIN engine \ (KeyFields \cup PitchFields) :
                     engine'[f] = engine[f]
              /\ engine'.current_note = TopKey(engine')
              /\ engine'.glide_period = NotePeriod(TopKey(engine'), engine.octave_transpose)
         ELSE /\ engine'.gate_on = 0
              /\ engine'.amp_env_level = engine.amp_env_level
              /\ engine'.filt_env_level = engine.filt_env_level
              /\ IF engine.amp_env_state # ENV_OFF
                 THEN /\ engine'.amp_env_state = ENV_RELEASE
                      /\ engine'.amp_env_release_level = engine.amp_env_level
                      /\ engine'.amp_env_counter = 0
                 ELSE engine'.amp_env_state = ENV_OFF
              /\ IF engine.filt_env_state # ENV_OFF
                 THEN /\ engine'.filt_env_state = ENV_RELEASE
                      /\ engine'.filt_env_release_level = engine.filt_env_level
                      /\ engine'.filt_env_counter = 0
                 ELSE engine'.filt_env_state = ENV_OFF]_vars

\* the last key was released while the envelopes were above their sustain
\* levels, after at least one rendered block
C6_Witness ==
    /\ last.op = "note_off"
    /\ engine.key_stack_count = 0 /\ engine.gate_on = 0
    /\ engine.counter > 0
    /\ engine.amp_env_state = ENV_RELEASE /\ engine.amp_env_release_level > engine.amp_sustain
    /\ engine.filt_env_state = ENV_RELEASE /\ engine.filt_env_release_level > engine.filt_sustain

\* C7: a note-on received while the gate is on changes no envelope field (nor
\* the gate); besides the push on the key stack it changes only the pitch
\* (target) period, the current note and the velocity.
C7_LegatoKeepsEnvelopes ==
    [][(last'.op = "note_on" /\ engine.gate_on = 1) =>
         /\ \A f \in DOMAIN engine \ (KeyFields \cup PitchFields \cup {"velocity"}) :
                engine'[f] = engine[f]
         /\ engine'.current_note = last'.note
         /\ engine'.velocity = last'.velocity
         /\ engine'.glide_period = NotePeriod(last'.note, engine.octave_transpose)]_vars

\* a second key was pressed while the envelopes were in Decay
C7_Witness ==
    /\ last.op = "note_on"
    /\ engine.key_stack_count >= 2
    /\ engine.amp_env_state = ENV_DECAY /\ engine.filt_env_state = ENV_DECAY

\* the level of each envelope after one more rendered sample
NextAmpLevel(e) == moog_engine_render(e, 1).amp_env_level
NextFiltLevel(e) == moog_engine_render(e, 1).filt_env_level

\* C8: a note-on received while the gate is off finds each envelope Off or in
\* Release and puts it in Attack with counter 0 and the attack anchor at the
\* level it had; the level itself is unchanged, and the first sample rendered
\* afterwards produces the anchor as level.
C8_SmoothRetrigger ==
    [][(last'.op = "note_on" /\ engine.gate_on = 0) =>
         /\ engine'.gate_on = 1
         /\ engine.amp_env_state \in {ENV_OFF, ENV_RELEASE}
         /\ engine.filt_env_state \in {ENV_OFF, ENV_RELEASE}
         /\ engine'.amp_env_state = ENV_ATTACK /\ engine'.amp_env_counter = 0
         /\ engine'.amp_env_attack_level = engine.amp_env_level
         /\ engine'.amp_env_level = engine.amp_env_level
         /\ NextAmpLevel(engine') = engine'.amp_env_attack_level
         /\ engine'.filt_env_state = ENV_ATTACK /\ engine'.filt_env_counter = 0
         /\ engine'.filt_env_attack_level = engine.filt_env_level
         /\ engine'.filt_env_level = engine.filt_env_level
         /\ NextFiltLevel(engine') = engine'.filt_env_attack_level]_vars

\* a key was pressed while both envelopes were releasing from a level above 0
C8_Witness ==
    /\ last.op = "note_on"
    /\ engine.key_stack_count = 1
    /\ engine.amp_env_state = ENV_ATTACK /\ engine.amp_env_counter = 0
    /\ engine.amp_env_attack_level > 0 /\ engine.amp_env_level = engine.amp_env_attack_level
    /\ engine.filt_env_state = ENV_ATTACK /\ engine.filt_env_counter = 0
    /\ engine.filt_env_attack_level > 0 /\ engine.filt_env_level = engine.filt_env_attack_level

\* a note-on, or a note-off that leaves held notes: the events that change pitch
PitchEvent ==
    \/ last'.op = "note_on"
    \/ last'.op = "note_off" /\ engine'.key_stack_count > 0

\* the note that sounds after a pitch event
NewNote == IF last'.op = "note_on" THEN last'.note ELSE TopKey(engine')

\* C9 as stated: with glide above 0.001 no note-on and no note-off that
\* leaves held notes changes the sounding period, a first note-on with the
\* gate off included.
C9_GlideNeverJumps ==
    [][(engine.glide > GlideThreshold /\ PitchEvent) =>
           engine'.period = engine.period]_vars

\* C9 amended: with glide above 0.001, a note-on received while the gate is
\* on and a note-off that leaves held notes set only the glide target period
\* and leave the sounding period as it was; a note-on received while the gate
\* is off sets the sounding period and the target to the period of the note.
C9_GlideWhenGated ==
    [][(engine.glide > GlideThreshold /\ PitchEvent) =>
         /\ engine'.glide_period = NotePeriod(NewNote, engine.octave_transpose)
         /\ IF last'.op = "note_on" /\ engine.gate_on = 0
            THEN engine'.period = engine'.glide_period
            ELSE engine'.period = engine.period]_vars

\* a legato note-on left the sounding period behind its new target
C9_Witness ==
    /\ engine.glide > GlideThreshold
    /\ last.op = "note_on"
    /\ engine.key_stack_count >= 2
    /\ engine.period # engine.glide_period

\* C10: with glide at most 0.001, right after a note-on or a note-off that
\* leaves held notes the sounding period and the glide target period both
\* equal the period of the new sounding note.
C10_NoGlideJumps ==
    [][(engine.glide <= GlideThreshold /\ PitchEvent) =>
         /\ engine'.period = NotePeriod(NewNote, engine.octave_transpose)
         /\ engine'.glide_period = engine'.period]_vars

\* releasing the top key made the pitch jump back to another held note
C10_Witness ==
    /\ engine.glide <= GlideThreshold
    /\ last.op = "note_off"
    /\ engine.key_stack_count > 0
    /\ TopKey(engine) # last.note
    /\ engine.period = NotePeriod(TopKey(engine), engine.octave_transpose)
    /\ engine.period # NotePeriod(last.note, engine.octave_transpose)

\* ------------------------------------------------------------------------
\* State machine of the envelopes, sample by sample
\* ------------------------------------------------------------------------
\* events arrive between render calls; here every call renders one frame and
\* the events are let in every EventGrid samples
EventGrid == 48
\* samples rendered before rendering stops
MaxEnvSamples == 288

\* patches with short envelope times (attack and release 0.012: 75.8 samples,
\* decay 0: 44.1 samples), no glide, sustain levels at and between the ends
\* of [0, 1], and the oscillators muted
EnvPatches ==
    { [InitParams EXCEPT !.glide = 0, !.osc_volume = <<0, 0, 0, 0>>,
           !.amp_attack = 12, !.amp_decay = 0, !.amp_sustain = s[1], !.amp_release = 12,
           !.filt_attack = 12, !.filt_decay = 0, !.filt_sustain = s[2], !.filt_release = 12]
      : s \in {<<700, 0>>, <<One, 300>>} }

EnvInit ==
    \E params \in EnvPatches :
        /\ engine = apply_params_to_engine(moog_engine_init, params)
        /\ held = <<>>
        /\ last = [op |-> "init", note |-> -1, velocity |-> 0, frames |-> 0]

OnGrid == engine.counter % EventGrid = 0

\* a render call of one frame
RenderOne ==
    /\ engine.counter < MaxEnvSamples
    /\ engine' = moog_engine_render(engine, 1)
    /\ held' = held
    /\ last' = [op |-> "render", note |-> -1, velocity |-> 0, frames |-> 1]

EnvNext ==
    \/ OnGrid /\ engine.key_stack_count = 0 /\ NoteOn(60, One)
    \/ OnGrid /\ NoteOff(60)
    \/ OnGrid /\ AllNotesOff
    \/ OnGrid /\ Reset
    \/ RenderOne

EnvSpec == EnvInit /\ [][EnvNext]_vars

\* C11: the level of the amplitude envelope and of the filter envelope is in
\* [0, 1] in every reachable state, with the envelope parameters in [0, 1].
C11_LevelInRange ==
    /\ engine.amp_env_level >= 0 /\ engine.amp_env_level <= One
    /\ engine.filt_env_level >= 0 /\ engine.filt_env_level <= One

\* a retrigger out of a Release that had begun in the middle of Attack is
\* rising from a level strictly inside (0, 1)
C11_Witness ==
    /\ last.op = "render"
    /\ engine.amp_env_state = ENV_ATTACK
    /\ engine.amp_env_release_level > 0 /\ engine.amp_env_release_level < One
    /\ engine.amp_env_attack_level < engine.amp_env_release_level
    /\ engine.amp_env_attack_level > 0 /\ engine.amp_env_attack_level < One
    /\ engine.amp_env_level > engine.amp_env_attack_level
    /\ engine.amp_env_level < One

\* C12: an envelope whose state is Off has level 0, in every reachable state.
C12_OffIsSilent ==
    /\ engine.amp_env_state = ENV_OFF => engine.amp_env_level = 0
    /\ engine.filt_env_state = ENV_OFF => engine.filt_env_level = 0

\* a release from a level above 0 ran to its end
C12_Witness ==
    /\ last.op = "render"
    /\ engine.amp_env_state = ENV_OFF /\ engine.amp_env_release_level > 0
    /\ engine.filt_env_state = ENV_OFF /\ engine.filt_env_release_level > 0
    /\ engine.amp_env_counter > 0

\* C20: every step that changes the state of an envelope leaves that
\* envelope's counter at 0.
C20_CounterZeroOnEntry ==
    [][/\ engine'.amp_env_state # engine.amp_env_state => engine'.amp_env_counter = 0
       /\ engine'.filt_env_state # engine.filt_env_state => engine'.filt_env_counter = 0]_vars

\* ------------------------------------------------------------------------
\* One key on the default patch, sample by sample
\* ------------------------------------------------------------------------
\* release settings: 0 (44.1 samples) and the default 0.2 (8864.1 samples)
ReleaseValues == {0, 200}
\* samples rendered after the key was released before rendering stops
MaxReleaseSamples == 8870

LongInit ==
    \E release \in ReleaseValues :
        /\ engine = [moog_engine_init EXCEPT !.amp_release = release,
                                             !.filt_release = release]
        /\ held = <<>>
        /\ last = [op |-> "init", note |-> -1, velocity |-> 0, frames |-> 0]

\* a render call of one frame: up to one second while the key is held
RenderLong ==
    /\ last.op # "init"
    /\ engine.counter < (IF held = <<>> THEN MaxReleaseSamples ELSE MOOG_SAMPLE_RATE)
    /\ engine' = moog_engine_render(engine, 1)
    /\ held' = held
    /\ last' = [op |-> "render", note |-> -1, velocity |-> 0, frames |-> 1]

\* the key is pressed once, and kept held or released at once
LongNext ==
    \/ last.op = "init" /\ NoteOn(60, One)
    \/ last.op = "note_on" /\ NoteOff(60)
    \/ RenderLong

LongSpec == LongInit /\ [][LongNext]_vars

\* the steps an envelope may take under rendering with the key held
HeldStep(before, after) ==
    \/ after = before
    \/ before = ENV_ATTACK /\ after = ENV_DECAY
    \/ before = ENV_DECAY /\ after = ENV_SUSTAIN

\* C13: on the default patch, after note-on with the key kept held, each
\* envelope starts in Attack, moves under rendering only from Attack to Decay
\* and from Decay to Sustain, and both are in Sustain once 44100 samples have
\* been rendered.
C13_ReachesSustain ==
    /\ []((last.op = "note_on") =>
              (engine.amp_env_state = ENV_ATTACK /\ engine.filt_env_state = ENV_ATTACK))
    /\ [][(held = <<60>> /\ last'.op = "render") =>
              /\ HeldStep(engine.amp_env_state, engine'.amp_env_state)
              /\ HeldStep(engine.filt_env_state, engine'.filt_env_state)]_vars
    /\ []((held = <<60>> /\ engine.counter >= MOOG_SAMPLE_RATE) =>
              (engine.amp_env_state = ENV_SUSTAIN /\ engine.filt_env_state = ENV_SUSTAIN))

\* one second has been rendered with the key held on the default patch
C13_Witness ==
    /\ held = <<60>> /\ last.op = "render"
    /\ engine.counter = MOOG_SAMPLE_RATE
    /\ engine.amp_release = 200
    /\ engine.amp_env_state = ENV_SUSTAIN /\ engine.amp_env_level = engine.amp_sustain
    /\ engine.filt_env_state = ENV_SUSTAIN /\ engine.filt_env_level = engine.filt_sustain

\* the key was pressed and released at once, and nothing else happened since
Released == held = <<>> /\ last.op \in {"note_off", "render"}

BothOff ==
    /\ engine.amp_env_state = ENV_OFF /\ engine.amp_env_level = 0
    /\ engine.filt_env_state = ENV_OFF /\ engine.filt_env_level = 0

\* the release duration of the claim, (0.001 + release^2 * 5.0) * 44100, in
\* 1/2000 sample
ReleaseDuration(release) == (2 * 100 + release * release) * 441

\* C14 as stated: after note-on followed at once by note-off both envelopes
\* are in Release, and once the samples rendered since the note-off number at
\* least the release duration both envelopes are Off with level 0.
C14_OffAfterRelease ==
    /\ (last.op = "note_off") =>
           (engine.amp_env_state = ENV_RELEASE /\ engine.filt_env_state = ENV_RELEASE)
    /\ (Released /\ 2000 * engine.counter >=
                        ReleaseDuration(engine.amp_release)) => BothOff

\* C14 amended: after note-on followed at once by note-off both envelopes are
\* in Release, and once the samples rendered since the note-off number at
\* least the release duration plus one both envelopes are Off with level 0.
C14_OffOneSampleLater ==
    /\ (last.op = "note_off") =>
           (engine.amp_env_state = ENV_RELEASE /\ engine.filt_env_state = ENV_RELEASE)
    /\ (Released /\ 2000 * (engine.counter - 1) >=
                        ReleaseDuration(engine.amp_release)) => BothOff

\* the default release has just run out: the first sample count that is at
\* least the release duration plus one
C14_Witness ==
    /\ Released /\ engine.amp_release = 200
    /\ 2000 * (engine.counter - 1) >= ReleaseDuration(engine.amp_release)
    /\ 2000 * (engine.counter - 2) < ReleaseDuration(engine.amp_release)
    /\ BothOff

\* ------------------------------------------------------------------------
\* Sound: audible patches rendered sample by sample
\* ------------------------------------------------------------------------
\* the total number of samples rendered in one behaviour
MaxSoundSamples == 144

\* two audible patches: four square waves and noise at full volume into the
\* open, non-resonant filter, and the default voice with the detuned
\* oscillators added into the fully resonant filter
SoundPatches ==
    { [InitParams EXCEPT !.osc_wave = <<WAVE_SQUARE, WAVE_SQUARE, WAVE_SQUARE, WAVE_SQUARE>>,
           !.osc_volume = <<One, One, One, One>>, !.osc_range = <<0, 0, 0, 0>>,
           !.noise_volume = One, !.master_volume = One,
           !.filter_cutoff = One, !.filter_resonance = 0,
           !.amp_attack = 0, !.amp_decay = 0, !.amp_sustain = One, !.amp_release = 0,
           !.filt_attack = 0, !.filt_decay = 0, !.filt_release = 0],
      [InitParams EXCEPT !.osc_wave = <<WAVE_SAWTOOTH, WAVE_PULSE, WAVE_SQUARE, WAVE_TRIANGLE>>,
           !.osc_volume = <<800, 600, 600, 400>>, !.osc_range = <<0, 1, -1, 0>>,
           !.osc2_detune = 700, !.osc3_detune = 300, !.osc4_detune = 600,
           !.filter_resonance = One, !.filter_key_follow = 500,
           !.amp_attack = 0, !.amp_decay = 0, !.amp_release = 0,
           !.filt_attack = 0, !.filt_decay = 0, !.filt_release = 0] }

\* last.output is the buffer the last render wrote, last.rendered the number
\* of samples rendered so far
SoundInit ==
    \E params \in SoundPatches, octave \in {0, 1} :
        /\ engine = set_octave_transpose(
                        apply_params_to_engine(moog_engine_init, params), octave)
        /\ held = <<>>
        /\ last = [op |-> "init", output |-> <<>>, rendered |-> 0]

SoundNoteOn ==
    /\ OnGrid
    /\ engine.key_stack_count = 0
    /\ engine' = moog_engine_note_on(engine, 60, One)
    /\ held' = <<60>>
    /\ last' = [last EXCEPT !.op = "note_on", !.output = <<>>]

SoundNoteOff ==
    /\ OnGrid
    /\ engine' = moog_engine_note_off(engine, 60)
    /\ held' = <<>>
    /\ last' = [last EXCEPT !.op = "note_off", !.output = <<>>]

SoundReset ==
    /\ OnGrid
    /\ engine' = moog_engine_reset(engine)
    /\ held' = <<>>
    /\ last' = [last EXCEPT !.op = "reset", !.output = <<>>]

SoundRender ==
    /\ last.rendered < MaxSoundSamples
    /\ LET r == Rendered(engine, 1)
       IN  /\ engine' = EngineAfter(engine, r)
           /\ last' = [op |-> "render", output |-> r.output,
                       rendered |-> last.rendered + 1]
    /\ held' = held

SoundNext ==
    \/ SoundNoteOn
    \/ SoundNoteOff
    \/ SoundReset
    \/ SoundRender

SoundSpec == SoundInit /\ [][SoundNext]_vars

\* C15: reset is idempotent: in every reachable state, resetting the engine
\* twice in a row gives exactly the engine that one reset gives
C15_ResetIdempotent ==
    moog_engine_reset(moog_engine_reset(engine)) = moog_engine_reset(engine)

\* a reset has just acted on an engine that had sounded: a key was held and
\* samples had been rendered; resetting again changes nothing
C15_Witness ==
    /\ last.op = "reset"
    /\ last.rendered >= EventGrid
    /\ engine.noise_seed # moog_engine_init.noise_seed
    /\ moog_engine_reset(engine) = engine

\* the fields a reset must leave alone: the parameters and the transpose
ConfigNames == ParamNames \cup {"octave_transpose"}

\* the gate, both envelopes, the filter memory, the key stack and the phase
\* counter are cleared
Cleared(e) ==
    /\ e.gate_on = 0
    /\ e.amp_env_state = ENV_OFF /\ e.amp_env_level = 0 /\ e.amp_env_counter = 0
    /\ e.filt_env_state = ENV_OFF /\ e.filt_env_level = 0 /\ e.filt_env_counter = 0
    /\ e.filter_prev = <<0, 0, 0, 0, 0>>
    /\ e.key_stack_count = 0
    /\ e.counter = 0

\* C16: a reset clears the gate, both envelopes (state Off, level 0, counter
\* 0), the filter memory, the key stack and the phase counter, and leaves
\* every parameter field and the octave transpose as they were
C16_ResetFrame ==
    [][last'.op = "reset" =>
          /\ Cleared(engine')
          /\ \A f \in ConfigNames : engine'[f] = engine[f]]_vars

\* a reset has cleared an engine that had sounded through the second patch
\* one octave up: the detunes and the transpose are still the patch's
C16_Witness ==
    /\ last.op = "reset"
    /\ last.rendered >= EventGrid
    /\ Cleared(engine)
    /\ engine.osc2_detune = 700
    /\ engine.octave_transpose = 1

\* C17: after every rendered sample the tap of the filter's last stage,
\* filter_prev[4], is within [-4.0, 4.0], and every output sample written has
\* a magnitude of at most 4 * master_volume
C17_TapBounded ==
    /\ Abs(engine.filter_prev[5]) <= 4 * MicroOne
    /\ \A i \in DOMAIN last.output :
           Abs(last.output[i]) <= 4 * engine.master_volume * One

\* a sample has just been rendered in which the limit acted: the tap sits
\* exactly on the bound and the output sample on 4 * master_volume
C17_Witness ==
    /\ last.op = "render"
    /\ Abs(engine.filter_prev[5]) = 4 * MicroOne
    /\ Abs(last.output[1]) = 4 * engine.master_volume * One

\* ------------------------------------------------------------------------
\* Plugin adapter
\* ------------------------------------------------------------------------
\* the parameters of factory preset 0, "Init"
FactoryInit ==
    [InitParams EXCEPT
        !.osc_wave = <<WAVE_SAWTOOTH, WAVE_SAWTOOTH, WAVE_SAWTOOTH, WAVE_TRIANGLE>>,
        !.osc_volume = <<700, 500, 400, 0>>,
        !.osc_range = <<-1, -1, -2, 0>>,
        !.osc2_detune = 480, !.osc3_detune = 520, !.osc4_detune = 500,
        !.noise_volume = 0,
        !.filter_cutoff = 700, !.filter_resonance = 200,
        !.filter_contour = 300, !.filter_key_follow = 0,
        !.amp_attack = 10, !.amp_decay = 300, !.amp_sustain = 700, !.amp_release = 200,
        !.filt_attack = 10, !.filt_decay = 300, !.filt_sustain = 300, !.filt_release = 200,
        !.glide = 0, !.master_volume = 700,
        !.lfo_rate = 300, !.lfo_depth_pitch = 0, !.lfo_depth_filter = 0,
        !.mod_to_filter = 500, !.mod_to_pitch = 500,
        !.bend_range = 167, !.velocity_sensitivity = 500]

\* the engine of a new instance: initialised, then preset 0 applied
v2_create_instance == apply_params_to_engine(moog_engine_init, FactoryInit)

\* bend is in 1/8192
moog_engine_pitch_bend(e, bend) == [e EXCEPT !.pitch_bend = bend]

\* amount is in 1/127
moog_engine_mod_wheel(e, amount) == [e EXCEPT !.mod_wheel = amount]

\* ((data2 << 7) | data1) - 8192 for two bytes: bit 7 of data1 and bit 0 of
\* data2 fall on the same bit of the result
BendValue(data1, data2) ==
    data2 * 128 + data1
    - (IF data1 >= 128 /\ data2 % 2 = 1 THEN 128 ELSE 0)
    - 8192

\* msg is the sequence of the message's bytes, each in 0..255
v2_on_midi(e, msg) ==
    IF Len(msg) < 2 THEN e
    ELSE LET status == msg[1] - (msg[1] % 16)
             data1 == msg[2]
             data2 == IF Len(msg) > 2 THEN msg[3] ELSE 0
         IN  CASE status = 144 ->
                    IF data2 > 0
                    THEN moog_engine_note_on(e, data1, (data2 * One) \div 127)
                    ELSE moog_engine_note_off(e, data1)
               [] status = 128 -> moog_engine_note_off(e, data1)
               [] status = 176 /\ data1 = 1 -> moog_engine_mod_wheel(e, data2)
               [] status = 176 /\ data1 = 123 -> moog_engine_all_notes_off(e)
               [] status = 224 -> moog_engine_pitch_bend(e, BendValue(data1, data2))
               [] OTHER -> e

\* tanhf at 0.9, 1.0, ..., 1.5 in 1/1000000
TanhTable == <<716298, 761594, 800499, 833655, 861723, 885352, 905148>>

\* tanhf(x) for 0.9 <= x < 1.5 in 1/1000000, interpolated from the table
SoftClip(x) ==
    LET j == (x - 900000) \div 100000
        rest == (x - 900000) % 100000
    IN  TanhTable[j + 1] + ((TanhTable[j + 2] - TanhTable[j + 1]) * (rest \div 100)) \div 1000

\* one mono sample (1/1000000) as the int16 written to both channels: the
\* output gain of 0.35, the soft clip above 0.9, the scaling to 32767
ToInt16(mono) ==
    LET sample == (Abs(mono) * 35) \div 100
        clipped == IF sample > 900000 THEN SoftClip(sample) ELSE sample
        s == ((clipped \div One) * 32767 + ((clipped % One) * 32767) \div One) \div One
        limited == IF s > 32767 THEN 32767 ELSE s
    IN  IF mono < 0 THEN -limited ELSE limited

\* the number of frames rendered for a request
BlockFrames_asked(frames) == frames

BlockFrames(frames) == IF frames > 256 THEN 256 ELSE frames

\* the engine after the call and the frames written to out_interleaved_lr,
\* one <<left, right>> pair per frame
v2_render_block(e, frames) ==
    LET r == Rendered(e, BlockFrames(frames))
    IN  [engine |-> EngineAfter(e, r),
         out |-> [i \in DOMAIN r.output |->
                     <<ToInt16(r.output[i]), ToInt16(r.output[i])>>]]

v2_get_error == 0

\* ------------------------------------------------------------------------
\* Blocks: an instance rendered in blocks of several sizes
\* ------------------------------------------------------------------------
\* the block sizes requested: below, at and above the maximum
BlockSizes == {64, 256, 300}

\* the number of samples rendered in one behaviour
MaxBlockSamples == 400

\* last.frames is the size requested, last.out the frames written,
\* last.error the result of get_error after the call
BlockInit ==
    /\ engine = v2_create_instance
    /\ held = <<>>
    /\ last = [op |-> "create_instance", frames |-> 0, out |-> <<>>, error |-> 0]

BlockNoteOn ==
    /\ engine.key_stack_count = 0
    /\ engine' = v2_on_midi(engine, <<144, 60, 100>>)
    /\ held' = <<60>>
    /\ last' = [op |-> "on_midi", frames |-> 0, out |-> <<>>, error |-> v2_get_error]

BlockNoteOff ==
    /\ engine' = v2_on_midi(engine, <<128, 60, 0>>)
    /\ held' = <<>>
    /\ last' = [op |-> "on_midi", frames |-> 0, out |-> <<>>, error |-> v2_get_error]

RenderBlock(frames) ==
    /\ engine.counter + frames <= MaxBlockSamples
    /\ LET b == v2_render_block(engine, frames)
       IN  /\ engine' = b.engine
           /\ last' = [op |-> "render_block", frames |-> frames, out |-> b.out,
                       error |-> v2_get_error]
    /\ held' = held

BlockNext ==
    \/ BlockNoteOn
    \/ BlockNoteOff
    \/ \E frames \in BlockSizes : RenderBlock(frames)

BlockSpec == BlockInit /\ [][BlockNext]_vars

\* C18: a render_block call asking for more than 256 frames renders and
\* writes exactly 256 (the engine advances by 256 samples), a call asking for
\* 256 or fewer writes exactly as many as asked, and no error is reported
C18_BlockTruncated ==
    [][last'.op = "render_block" =>
          LET n == IF last'.frames > MOOG_MAX_RENDER THEN MOOG_MAX_RENDER
                   ELSE last'.frames
          IN  /\ Len(last'.out) = n
              /\ engine'.counter = engine.counter + n
              /\ last'.error = 0]_vars

\* a block of 300 frames was asked for while a key sounded, and 256 frames
\* were written, the last of them not silent
C18_Witness ==
    /\ last.op = "render_block"
    /\ last.frames = 300
    /\ Len(last.out) = 256
    /\ engine.gate_on = 1
    /\ last.out[256][1] # 0

\* ------------------------------------------------------------------------
\* MIDI: messages of arbitrary bytes delivered to an instance
\* ------------------------------------------------------------------------
\* the messages delivered: note on and off (also as note on with velocity
\* 0) for two keys, mod wheel, sustain, all notes off, channel pressure with
\* two bytes, and pitch bend; data bytes at the ends of the 7-bit range and
\* with bit 7 set
MidiMessages ==
    { <<144, 60, 100>>, <<144, 64, 127>>, <<144, 60, 0>>, <<128, 64, 0>>,
      <<177, 1, 0>>, <<177, 1, 127>>, <<177, 1, 255>>, <<177, 64, 127>>, <<177, 123, 0>>,
      <<208, 10>>,
      <<224, 0, 64>>, <<224, 0, 0>>, <<224, 127, 127>>, <<224, 128, 1>>, <<224, 255, 255>> }

\* the keys held at once
MaxMidiKeys == 2

\* last.msg is the message delivered
MidiInit ==
    /\ engine = v2_create_instance
    /\ held = <<>>
    /\ last = [op |-> "create_instance", msg |-> <<>>]

OnMidi(msg) ==
    /\ engine.key_stack_count < MaxMidiKeys
    /\ engine' = v2_on_midi(engine, msg)
    /\ held' = [i \in 1..engine'.key_stack_count |-> engine'.key_stack[i]]
    /\ last' = [op |-> "on_midi", msg |-> msg]

MidiNext == \E msg \in MidiMessages : OnMidi(msg)

MidiSpec == MidiInit /\ [][MidiNext]_vars

\* C19: whatever bytes the messages delivered through on_midi carry, the
\* stored pitch_bend is in [-1, 1] (here in 1/8192) and the stored mod_wheel
\* is in [0, 1] (here in 1/127)
C19_ModInputsInRange ==
    /\ -8192 <= engine.pitch_bend /\ engine.pitch_bend <= 8192
    /\ 0 <= engine.mod_wheel /\ engine.mod_wheel <= 127

\* the same for messages whose data bytes are 7-bit, as MIDI defines them
C19_InRangeFor7Bit ==
    [][(/\ last'.op = "on_midi"
        /\ \A i \in 2..Len(last'.msg) : last'.msg[i] <= 127
        /\ C19_ModInputsInRange)
       => C19_ModInputsInRange']_vars

\* ------------------------------------------------------------------------
\* Envelope transitions
\* ------------------------------------------------------------------------
\* a change of one envelope's state from before to after is one the call op
\* may make; gate is the gate before the call, count the number of held keys
\* after it
AllowedChange(op, gate, count, before, after) ==
    \/ /\ op = "note_on" /\ gate = 0
       /\ before \in {ENV_OFF, ENV_RELEASE} /\ after = ENV_ATTACK
    \/ /\ op = "render"
       /\ <<before, after>> \in {<<ENV_ATTACK, ENV_DECAY>>, <<ENV_DECAY, ENV_SUSTAIN>>,
                                 <<ENV_RELEASE, ENV_OFF>>}
    \/ /\ op = "note_off" /\ count = 0
       /\ before \in {ENV_ATTACK, ENV_DECAY, ENV_SUSTAIN} /\ after = ENV_RELEASE
    \/ /\ op \in {"all_notes_off", "reset"} /\ after = ENV_OFF

\* C21: every change of an envelope's state is Off->Attack or Release->Attack
\* by a note-on with the gate off, Attack->Decay, Decay->Sustain or
\* Release->Off by one rendered sample, Attack/Decay/Sustain->Release by a
\* note-off that leaves no key held, or any state->Off by all-notes-off or
\* reset; rendering never leaves Sustain and never moves backwards
C21_EnvelopeTransitions ==
    [][/\ engine'.amp_env_state # engine.amp_env_state =>
             AllowedChange(last'.op, engine.gate_on, engine'.key_stack_count,
                           engine.amp_env_state, engine'.amp_env_state)
       /\ engine'.filt_env_state # engine.filt_env_state =>
             AllowedChange(last'.op, engine.gate_on, engine'.key_stack_count,
                           engine.filt_env_state, engine'.filt_env_state)]_vars

\* a rendered sample has just taken the amplitude envelope from Release to
\* Off while the filter envelope, released with it, also went Off
C21_Witness ==
    /\ last.op = "render"
    /\ engine.amp_env_state = ENV_OFF /\ engine.amp_env_counter = 1
    /\ engine.filt_env_state = ENV_OFF /\ engine.filt_env_counter = 1
    /\ engine.amp_env_release_level > 0

\* ------------------------------------------------------------------------
\* Controls: every engine call, with pitch bend and mod wheel
\* ------------------------------------------------------------------------
\* the value the phase counter may reach
MaxControlSamples == 96

\* pitch bend in 1/8192 and mod wheel in 1/127: away from the initial 0
BendValues == {-8192, 8191}
WheelValues == {127}

\* the sizes of the rendered blocks
ControlFrames == {32, 48}

ControlInit ==
    \E params \in Patches :
        /\ params.glide = GlideThreshold
        /\ engine = apply_params_to_engine(moog_engine_init, params)
        /\ held = <<>>
        /\ last = [op |-> "init", note |-> -1, velocity |-> 0, frames |-> 0]

PitchBend(bend) ==
    /\ engine' = moog_engine_pitch_bend(engine, bend)
    /\ held' = held
    /\ last' = [op |-> "pitch_bend", note |-> -1, velocity |-> 0, frames |-> 0]

ModWheel(amount) ==
    /\ engine' = moog_engine_mod_wheel(engine, amount)
    /\ held' = held
    /\ last' = [op |-> "mod_wheel", note |-> -1, velocity |-> 0, frames |-> 0]

ControlRender(frames) ==
    /\ engine.counter + frames <= MaxControlSamples
    /\ engine' = moog_engine_render(engine, frames)
    /\ held' = held
    /\ last' = [op |-> "render", note |-> -1, velocity |-> 0, frames |-> frames]

ControlNext ==
    \/ engine.key_stack_count = 0 /\ NoteOn(60, One)
    \/ NoteOff(60)
    \/ AllNotesOff
    \/ Reset
    \/ \E bend \in BendValues : PitchBend(bend)
    \/ \E amount \in WheelValues : ModWheel(amount)
    \/ \E frames \in ControlFrames : ControlRender(frames)

ControlSpec == ControlInit /\ [][ControlNext]_vars

\* C22: a render of n frames raises the phase counter by exactly n; note-on,
\* note-off, pitch bend, mod wheel and all-notes-off leave it unchanged; only
\* reset (and init) set it to 0
C22_CounterFrame ==
    /\ last.op = "init" => engine.counter = 0
    /\ [][/\ last'.op = "render" => engine'.counter = engine.counter + last'.frames
          /\ last'.op \in {"note_on", "note_off", "pitch_bend", "mod_wheel",
                            "all_notes_off"} => engine'.counter = engine.counter
          /\ last'.op = "reset" => engine'.counter = 0]_vars

\* the counter stands at 64 after two blocks and a bent, sounding note was
\* just released by all-notes-off
C22_Witness ==
    /\ last.op = "all_notes_off"
    /\ engine.counter = 64
    /\ engine.pitch_bend = 8191
    /\ engine.mod_wheel = 127

\* ------------------------------------------------------------------------
\* Pitch: keys over the whole note range under every octave transpose
\* ------------------------------------------------------------------------
\* the keys played: the ends of the note range, keys a transpose takes past
\* either end, and the middle
PitchNotes == {0, 24, 60, 110, 127}

\* the keys held at once
MaxPitchKeys == 2

PitchInit ==
    \E params \in Patches, octave \in -3..3 :
        /\ engine = set_octave_transpose(
                        apply_params_to_engine(moog_engine_init, params), octave)
        /\ held = <<>>
        /\ last = [op |-> "init", note |-> -1, velocity |-> 0, frames |-> 0]

PitchNoteOn(note) ==
    /\ engine.key_stack_count < MaxPitchKeys
    /\ engine' = moog_engine_note_on(engine, note, One)
    /\ held' = Append(WithoutKey(held, note), note)
    /\ last' = [op |-> "note_on", note |-> note, velocity |-> One, frames |-> 0]

PitchNext ==
    \/ \E note \in PitchNotes : PitchNoteOn(note)
    \/ \E note \in PitchNotes : NoteOff(note)

PitchSpec == PitchInit /\ [][PitchNext]_vars

\* the period of the note that note + 12 * octave_transpose gives once it is
\* limited to 0..127
TransposedPeriod(note, octave_transpose) ==
    LET n == note + 12 * octave_transpose
        limited == IF n < 0 THEN 0 ELSE IF n > 127 THEN 127 ELSE n
    IN  hz_to_period(note_to_hz(limited), MOOG_SAMPLE_RATE)

\* the pitch of e is that of the transposed note: the glide target always,
\* the sounding period too unless the call glides
PitchIs(e, note, glides) ==
    /\ e.glide_period = TransposedPeriod(note, e.octave_transpose)
    /\ ~glides => e.period = TransposedPeriod(note, e.octave_transpose)

\* C23: for every note and octave transpose, a note-on sets the pitch to the
\* period of clamp(note + 12 * octave_transpose, 0, 127), and so does a
\* note-off for the top key that remains; current_note and the key stack
\* keep the note number as it was played
C23_TransposedPitch ==
    [][/\ last'.op = "note_on" =>
             /\ PitchIs(engine', last'.note,
                        engine.gate_on # 0 /\ engine.glide > GlideThreshold)
             /\ engine'.current_note = last'.note
             /\ engine'.key_stack = Append(engine.key_stack, last'.note)
       /\ (last'.op = "note_off" /\ engine'.key_stack_count > 0) =>
             /\ PitchIs(engine', TopKey(engine'), engine.glide > GlideThreshold)
             /\ engine'.current_note = TopKey(engine')
             /\ \A i \in 1..engine'.key_stack_count : engine'.key_stack[i] \in PitchNotes]_vars

\* three octaves down, key 24 was pressed over key 110: the stack and
\* current_note hold 24 while the pitch is that of note 0
C23_Witness ==
    /\ last.op = "note_on" /\ last.note = 24
    /\ engine.octave_transpose = -3
    /\ engine.key_stack = <<110, 24>>
    /\ engine.current_note = 24
    /\ engine.glide_period = hz_to_period(note_to_hz(0), MOOG_SAMPLE_RATE)

\* ------------------------------------------------------------------------
\* Detune: the period of each oscillator over the detune and range settings
\* ------------------------------------------------------------------------
\* the detune settings: the ends, the centre, the quarters, and the
\* smallest steps off 0 and off the centre
DetuneValues == {0, 2, 250, 498, 500, 750, One}

\* the range settings
RangeValues == -2..2

\* all four oscillators share the detune d and the range
DetuneInit ==
    \E d \in DetuneValues, range \in RangeValues :
        /\ engine = apply_params_to_engine(moog_engine_init,
                        [InitParams EXCEPT !.osc_volume = <<One, One, One, One>>,
                                           !.osc_range = <<range, range, range, range>>,
                                           !.osc2_detune = d, !.osc3_detune = d,
                                           !.osc4_detune = d])
        /\ held = <<>>
        /\ last = [op |-> "init", osc |-> 0, period |-> 0]

\* the period the render loop uses for oscillator osc, with no pitch bend
OscPeriodOf(osc) ==
    /\ engine' = engine
    /\ held' = held
    /\ last' = [op |-> "osc_period", osc |-> osc,
                period |-> OscPeriod(engine, osc, DivRatio(engine.period, BendRatio(engine)))]

DetuneNext == \E osc \in 1..4 : OscPeriodOf(osc)

DetuneSpec == DetuneInit /\ [][DetuneNext]_vars

\* base * 2^(-range) * 2^(-cents / 1200) with cents = (d - 0.5) * 100
MappedPeriod(base, range, d) ==
    MulRatio(MulRatio(base, Exp2(-range * One)), Exp2((500 - d) \div 12))

\* the detune setting of oscillator osc (2..4)
DetuneOf(e, osc) ==
    CASE osc = 2 -> e.osc2_detune
      [] osc = 3 -> e.osc3_detune
      [] osc = 4 -> e.osc4_detune

\* C24: for oscillators 2, 3 and 4 and every detune d in [0, 1] the period
\* used is base * 2^(-range) * 2^(-cents / 1200) with cents = (d - 0.5) *
\* 100, the same mapping for all three (d = 0 is 50 cents off), and
\* oscillator 1 is never detuned
C24_DetuneMapping ==
    last.op = "osc_period" =>
        last.period = MappedPeriod(engine.period, engine.osc_range[last.osc],
                                   IF last.osc = 1 THEN 500 ELSE DetuneOf(engine, last.osc))

\* the same for the settings the code does detune: above 0.001 for
\* oscillators 2 and 3, every setting for oscillators 1 and 4
C24_MappingAboveZero ==
    (last.op = "osc_period" /\ (last.osc \in {2, 3} => DetuneOf(engine, last.osc) > 1)) =>
        last.period = MappedPeriod(engine.period, engine.osc_range[last.osc],
                                   IF last.osc = 1 THEN 500 ELSE DetuneOf(engine, last.osc))

\* at d = 0 oscillators 2 and 3 run at the period of d = 0.5 while
\* oscillator 4 runs at the period 50 cents off
C24_ZeroIsCentre ==
    (last.op = "osc_period" /\ engine.osc2_detune = 0) =>
        last.period = MappedPeriod(engine.period, engine.osc_range[last.osc],
                                   IF last.osc = 4 THEN 0 ELSE 500)

\* ------------------------------------------------------------------------
\* Parameters: set_param calls on an instance
\* ------------------------------------------------------------------------
\* the instance's fields beside the engine, after create_instance
NewInstance == [octave_transpose |-> 0, current_preset |-> 0, params |-> FactoryInit]

\* the entries of g_shadow_params used here, key to parameter; each is a
\* float parameter with minimum 0.0 and maximum 1.0
ShadowParams == [glide |-> "glide", volume |-> "master_volume"]

\* apply_preset for the presets used here: preset 0 only
apply_preset(inst, e, preset_idx) ==
    IF preset_idx # 0 THEN [inst |-> inst, engine |-> e]
    ELSE [inst |-> [inst EXCEPT !.params = FactoryInit, !.current_preset = 0],
          engine |-> apply_params_to_engine(e, FactoryInit)]

\* the parameter array after the clamped values of the keys of val that
\* are in keys have been stored
StoreParams(params, val, keys) ==
    [f \in DOMAIN params |->
        IF \E k \in keys : k \in DOMAIN val /\ ShadowParams[k] = f
        THEN LET k == CHOOSE k \in keys : k \in DOMAIN val /\ ShadowParams[k] = f
             IN  clampf(val[k], 0, One)
        ELSE params[f]]

\* the transpose stored by the "octave_transpose" key
OctaveFromKey(val) == IF val < -3 THEN -3 ELSE IF val > 3 THEN 3 ELSE val

\* set_param(key, val): for the "state" key val is the JSON object, a
\* function from its keys to numbers; for the other keys the number parsed
\* from the string
v2_set_param(inst, e, key, val) ==
    CASE key = "state" ->
           LET preset == IF "preset" \in DOMAIN val
                         THEN apply_preset(inst, e, val["preset"])
                         ELSE [inst |-> inst, engine |-> e]
               octave == IF "octave_transpose" \in DOMAIN val
                         THEN [inst |-> [preset.inst EXCEPT
                                            !.octave_transpose = val["octave_transpose"]],
                               engine |-> [preset.engine EXCEPT
                                            !.octave_transpose = val["octave_transpose"]]]
                         ELSE preset
               params == StoreParams(octave.inst.params, val, DOMAIN ShadowParams)
           IN  [inst |-> [octave.inst EXCEPT !.params = params],
                engine |-> apply_params_to_engine(octave.engine, params)]
      [] key = "preset" -> apply_preset(inst, e, val)
      [] key = "octave_transpose" ->
           [inst |-> [inst EXCEPT !.octave_transpose = OctaveFromKey(val)],
            engine |-> [e EXCEPT !.octave_transpose = OctaveFromKey(val)]]
      [] key = "all_notes_off" ->
           [inst |-> inst, engine |-> moog_engine_all_notes_off(e)]
      [] key \in DOMAIN ShadowParams ->
           LET params == StoreParams(inst.params, [k \in {key} |-> val], {key})
           IN  [inst |-> [inst EXCEPT !.params = params],
                engine |-> apply_params_to_engine(e, params)]
      [] OTHER -> [inst |-> inst, engine |-> e]

\* the numbers passed for the transpose and the preset index, and for the
\* float parameters in 1/1000
OctaveInputs == {-5, -3, 0, 2, 3, 7}
PresetInputs == {-1, 0, 9999}
FloatInputs == {-500, 1500}

\* the JSON objects passed for the "state" key
StateInputs ==
    { [octave_transpose |-> o] : o \in OctaveInputs }
    \cup { [preset |-> p, octave_transpose |-> o, glide |-> g]
            : p \in PresetInputs, o \in {7}, g \in {1500} }
    \cup { [volume |-> v] : v \in FloatInputs }

\* last.inst holds the instance's fields beside the engine
ParamInit ==
    /\ engine = v2_create_instance
    /\ held = <<>>
    /\ last = [op |-> "create_instance", key |-> "", inst |-> NewInstance]

SetParam(key, val) ==
    LET after == v2_set_param(last.inst, engine, key, val)
    IN  /\ engine' = after.engine
        /\ held' = IF key = "all_notes_off" THEN <<>> ELSE held
        /\ last' = [op |-> "set_param", key |-> key, inst |-> after.inst]

ParamNoteOn ==
    /\ engine.key_stack_count = 0
    /\ engine' = v2_on_midi(engine, <<144, 60, 100>>)
    /\ held' = <<60>>
    /\ last' = [last EXCEPT !.op = "on_midi", !.key = ""]

ParamNext ==
    \/ \E val \in StateInputs : SetParam("state", val)
    \/ \E val \in PresetInputs : SetParam("preset", val)
    \/ \E val \in OctaveInputs : SetParam("octave_transpose", val)
    \/ SetParam("all_notes_off", 0)
    \/ \E key \in DOMAIN ShadowParams, val \in FloatInputs : SetParam(key, val)
    \/ ParamNoteOn

ParamSpec == ParamInit /\ [][ParamNext]_vars

\* C25: after any sequence of set_param calls the instance's octave
\* transpose is within [-3, 3], whether it was set through the
\* "octave_transpose" key or restored through the "state" key, and the
\* engine's octave_transpose equals the instance's
C25_OctaveInRange ==
    /\ -3 <= last.inst.octave_transpose /\ last.inst.octave_transpose <= 3
    /\ engine.octave_transpose = last.inst.octave_transpose

\* the engine's transpose always equals the instance's
C25_EngineFollowsInstance == engine.octave_transpose = last.inst.octave_transpose

\* the "octave_transpose" key always leaves the transpose within [-3, 3]
C25_KeyIsClamped ==
    [][(last'.op = "set_param" /\ last'.key = "octave_transpose") =>
          (-3 <= last'.inst.octave_transpose /\ last'.inst.octave_transpose <= 3)]_vars

\* ------------------------------------------------------------------------
\* Gate
\* ------------------------------------------------------------------------
\* C26: in every state reached from init by note-on, note-off,
\* all-notes-off, reset and render, the gate is on if and only if the key
\* stack is not empty
C26_GateIffKeys == (engine.gate_on = 1) <=> (engine.key_stack_count > 0)

\* a note-off has just taken one entry of a key that the stack held twice:
\* the key is up, its other entry is still in the stack, and the gate is on
C26_Witness ==
    /\ last.op = "note_off"
    /\ engine.gate_on = 1
    /\ \E i \in 1..engine.key_stack_count : engine.key_stack[i] = last.note
    /\ \A i \in 1..Len(held) : held[i] # last.note

\* C27: in every reachable state the gate and the envelopes agree: with the
\* gate on both envelopes are in Attack, Decay or Sustain, with the gate off
\* both are in Release or Off
C27_GateAgreesWithEnvelopes ==
    LET states == {engine.amp_env_state, engine.filt_env_state}
    IN  /\ engine.gate_on = 1 => states \subseteq {ENV_ATTACK, ENV_DECAY, ENV_SUSTAIN}
        /\ engine.gate_on = 0 => states \subseteq {ENV_RELEASE, ENV_OFF}

\* samples were rendered after the last key went up: the gate is off and
\* both envelopes are part way through Release
C27_Witness ==
    /\ engine.gate_on = 0
    /\ last.op = "render"
    /\ engine.amp_env_state = ENV_RELEASE /\ engine.amp_env_counter > 1
    /\ engine.filt_env_state = ENV_RELEASE /\ engine.filt_env_counter > 1

\* C28: no stuck notes: once every note-on has been followed by a note-off
\* for the same note (no key is down), the key stack is empty and the gate
\* is off
C28_NoStuckNotes ==
    held = <<>> => (engine.key_stack_count = 0 /\ engine.gate_on = 0)

\* ------------------------------------------------------------------------
\* Reset of a new engine
\* ------------------------------------------------------------------------
\* C29: a reset changes nothing in an engine that was just initialised; in
\* particular current_note is -1 both with and without the reset
C29_ResetAfterInit ==
    last.op = "init" =>
        /\ moog_engine_reset(engine) = engine
        /\ engine.current_note = -1

\* current_note is the only field a reset changes in a new engine
C29_OnlyCurrentNoteDiffers ==
    last.op = "init" =>
        /\ [moog_engine_reset(engine) EXCEPT !.current_note = engine.current_note] = engine
        /\ moog_engine_reset(engine).current_note = -1
        /\ engine.current_note = 0

\* ------------------------------------------------------------------------
\* Splits: a span rendered in one block and in two
\* ------------------------------------------------------------------------
\* the value the phase counter may reach
MaxSplitSamples == 32

\* the size of the rendered blocks
SplitFrames == {16}

\* the spans compared, <<n, m>>: n frames then m frames against n + m
SplitPairs == {<<8, 16>>, <<16, 8>>}

\* the default voice with short envelopes, with no glide, a glide just
\* above the threshold, and a long one
SplitPatches ==
    { [InitParams EXCEPT !.glide = g,
           !.amp_attack = 0, !.amp_decay = 0, !.amp_release = 0,
           !.filt_attack = 0, !.filt_decay = 0, !.filt_release = 0]
      : g \in {0, 2, 300} }

SplitInit ==
    \E params \in SplitPatches :
        /\ engine = apply_params_to_engine(moog_engine_init, params)
        /\ held = <<>>
        /\ last = [op |-> "init", note |-> -1, velocity |-> 0, frames |-> 0]

SplitNoteOn(note) ==
    /\ engine.key_stack_count < 2
    /\ \A i \in 1..engine.key_stack_count : engine.key_stack[i] # note
    /\ engine' = moog_engine_note_on(engine, note, One)
    /\ held' = Append(held, note)
    /\ last' = [op |-> "note_on", note |-> note, velocity |-> One, frames |-> 0]

SplitRender(frames) ==
    /\ engine.counter + frames <= MaxSplitSamples
    /\ engine' = moog_engine_render(engine, frames)
    /\ held' = held
    /\ last' = [op |-> "render", note |-> -1, velocity |-> 0, frames |-> frames]

SplitNext ==
    \/ \E note \in {60, 72} : SplitNoteOn(note)
    \/ \E note \in {60, 72} : NoteOff(note)
    \/ \E frames \in SplitFrames : SplitRender(frames)

SplitSpec == SplitInit /\ [][SplitNext]_vars

\* rendering n frames and then m frames from e leaves the engine that
\* rendering n + m frames leaves, and writes the same samples
SplitEqual(e, n, m) ==
    LET first == Rendered(e, n)
        middle == EngineAfter(e, first)
        second == Rendered(middle, m)
        whole == Rendered(e, n + m)
    IN  /\ EngineAfter(middle, second) = EngineAfter(e, whole)
        /\ first.output \o second.output = whole.output

\* a glide is in progress in e: the glide setting is above the threshold
\* and the sounding period is away from its target
Gliding(e) ==
    /\ e.glide > GlideThreshold
    /\ Abs(e.period - e.glide_period) > GlideEpsilon

====
